---------------------------- MODULE Spec2Model ----------------------------
(***************************************************************************)
(* Model of the tutorb retrieval-augmented tutoring service (src/main.py). *)
(*                                                                         *)
(* Texts are sequences of tokens.  A token is a string standing for one    *)
(* character ("*", "#", "$", " ", "\n", "[", "]", "a") or for one literal  *)
(* fragment of the source that is only ever handled as a whole (the        *)
(* literal "IMAGE: " of the image tag, the fixed sentences of the          *)
(* narratives, of the prompt template and of the image URLs).              *)
(* An optional value (Python None or a string) is a record                 *)
(* [null |-> BOOLEAN, v |-> text].                                         *)
(***************************************************************************)
EXTENDS Integers, Sequences, FiniteSets, TLC

VARIABLES
    ai_tools,      \* the module global ai_tools (main.py:24)
    pc,            \* position of the request being served
    req,           \* arguments of ask_the_brain
    store,         \* rows of the cultural_knowledge table (external, read-only)
    env,           \* what the external calls of this request did
    ctx,           \* the values get_context returned to this request, in order
    visual_url,    \* local visual_url of ask_the_brain
    prompt,        \* the template built at step 6
    sent,          \* the formatted prompt handed to the llm
    reply,         \* ai_reply.content
    failed,        \* which step raised into ask_the_brain's except clause
    result,        \* the triple returned by ask_the_brain
    tpc,           \* per thread: position inside get_ai_tools
    tlocal,        \* per thread: clients constructed so far
    tret,          \* per thread: value returned by get_ai_tools
    constructed,   \* how many client bundles were constructed in this process
    waText, waOnce, waTwice, waPc,     \* clean_for_whatsapp under test
    imgText, imgSegs, imgOut, imgPc,   \* process_text_images under test
    chunks,        \* process_and_upload: the chunks of the text (scrape_and_feed.py:94)
    all_vectors,   \* process_and_upload: the vectors collected so far
    bi,            \* process_and_upload: index i of the batching loop
    ui,            \* process_and_upload: number of chunks the upload loop has passed
    rows,          \* rows inserted into cultural_knowledge by this call
    retries,       \* rate-limit errors met so far
    ingPc          \* position inside process_and_upload

vars == <<ai_tools, pc, req, store, env, ctx, visual_url, prompt, sent, reply,
          failed, result, tpc, tlocal, tret, constructed,
          waText, waOnce, waTwice, waPc, imgText, imgSegs, imgOut, imgPc,
          chunks, all_vectors, bi, ui, rows, retries, ingPc>>

brainVars == <<pc, req, store, env, ctx, visual_url, prompt, sent, reply, failed, result>>
toolVars  == <<tpc, tlocal, tret, constructed>>
waVars    == <<waText, waOnce, waTwice, waPc>>
imgVars   == <<imgText, imgSegs, imgOut, imgPc>>
ingVars   == <<chunks, all_vectors, bi, ui, rows, retries, ingPc>>

-----------------------------------------------------------------------------
(* Bounds *)
MaxRows    == 2    \* rows a similarity search may return
MaxWaLen   == 4    \* length of the texts given to clean_for_whatsapp
MaxImgLen  == 7    \* length of the texts given to process_text_images
NumThreads == 3    \* threads entering get_ai_tools
MaxChunks  == 6    \* chunks of an ingested text
MaxRetries == 2    \* rate-limit errors met during one ingestion

-----------------------------------------------------------------------------
(* Generic text helpers *)

None == [null |-> TRUE, v |-> <<>>]
Some(s) == [null |-> FALSE, v |-> s]

\* Python truthiness of an optional string: None and "" are falsy
Truthy(o) == ~o.null /\ o.v # <<>>

RECURSIVE SeqsUpTo(_, _)
SeqsUpTo(S, n) ==
    IF n = 0 THEN {<<>>}
    ELSE LET shorter == SeqsUpTo(S, n - 1)
         IN  shorter \cup {Append(s, x) : s \in {t \in shorter : Len(t) = n - 1}, x \in S}

Drop(s, n) == SubSeq(s, n + 1, Len(s))

Min(S) == CHOOSE x \in S : \A y \in S : x <= y

\* number of leading elements of s that are in S
LeadIn(s, S) ==
    LET stop == {i \in 1..Len(s) : s[i] \notin S}
    IN  IF stop = {} THEN Len(s) ELSE Min(stop) - 1

\* number of trailing elements of s that are in S
TrailIn(s, S) ==
    LET stop == {i \in 1..Len(s) : s[Len(s) + 1 - i] \notin S}
    IN  IF stop = {} THEN Len(s) ELSE Min(stop) - 1

\* number of leading elements of s that are not in S
LeadNotIn(s, S) ==
    LET stop == {i \in 1..Len(s) : s[i] \in S}
    IN  IF stop = {} THEN Len(s) ELSE Min(stop) - 1

\* s contains the two adjacent tokens a, b
HasPair(s, a, b) == \E i \in 1..(Len(s) - 1) : s[i] = a /\ s[i + 1] = b

\* urllib.parse.quote with the default safe="/": letters, digits and
\* "_.-~/" are kept, every other character becomes %XX
QuoteTok(t) ==
    CASE t = " "  -> "%20"
      [] t = "\n" -> "%0A"
      [] t = "*"  -> "%2A"
      [] t = "#"  -> "%23"
      [] t = "$"  -> "%24"
      [] t = "["  -> "%5B"
      [] t = "]"  -> "%5D"
      [] t = "IMAGE: " -> "IMAGE%3A%20"
      [] t = "Ohm's Law" -> "Ohm%27s%20Law"
      [] t = "educational vector diagram of " -> "educational%20vector%20diagram%20of%20"
      [] t = ", highly detailed, sharp focus, 4k resolution, svg style, white background, clean lines, minimal text"
           -> "%2C%20highly%20detailed%2C%20sharp%20focus%2C%204k%20resolution%2C%20svg%20style%2C%20white%20background%2C%20clean%20lines%2C%20minimal%20text"
      [] t = "Educational vector diagram explaining " -> "Educational%20vector%20diagram%20explaining%20"
      [] t = ", highly detailed, sharp focus, 8k resolution, svg style, white background, clean lines, high quality, minimal text"
           -> "%2C%20highly%20detailed%2C%20sharp%20focus%2C%208k%20resolution%2C%20svg%20style%2C%20white%20background%2C%20clean%20lines%2C%20high%20quality%2C%20minimal%20text"
      [] OTHER -> t

quote(s) == [i \in 1..Len(s) |-> QuoteTok(s[i])]

-----------------------------------------------------------------------------
(* clean_for_whatsapp, main.py:62-66 *)

\* text.replace("**", "*"): non-overlapping occurrences, left to right
RECURSIVE ReplaceStars(_)
ReplaceStars(s) ==
    IF s = <<>> THEN <<>>
    ELSE IF Len(s) >= 2 /\ s[1] = "*" /\ s[2] = "*"
         THEN <<"*">> \o ReplaceStars(Drop(s, 2))
         ELSE <<s[1]>> \o ReplaceStars(Tail(s))

\* re.sub(r'#+\s*(.*)', r'*\1*', text): at the leftmost "#", the greedy #+
\* takes the run of "#", the greedy \s* the following whitespace (newlines
\* included), (.*) the rest of the line; the scan resumes after the match
RECURSIVE HeadingSub(_)
HeadingSub(s) ==
    IF s = <<>> THEN <<>>
    ELSE IF s[1] # "#" THEN <<s[1]>> \o HeadingSub(Tail(s))
    ELSE LET r1 == Drop(s, LeadIn(s, {"#"}))
             r2 == Drop(r1, LeadIn(r1, {" ", "\n"}))
             n  == LeadNotIn(r2, {"\n"})
         IN  <<"*">> \o SubSeq(r2, 1, n) \o <<"*">> \o HeadingSub(Drop(r2, n))

\* text.replace("$", "")
RemoveDollar(s) == SelectSeq(s, LAMBDA c : c # "$")

\* text.strip()
Strip(s) ==
    LET l == Drop(s, LeadIn(s, {" ", "\n"}))
    IN  SubSeq(l, 1, Len(l) - TrailIn(l, {" ", "\n"}))

clean_for_whatsapp(text) == Strip(RemoveDollar(HeadingSub(ReplaceStars(text))))

-----------------------------------------------------------------------------
(* process_text_images, main.py:107-118 *)

\* variant of MatchEnd for the greedy group (.*): the match runs to the last
\* "]" of the line
MatchEnd_Greedy(s, p) ==
    IF p + 2 > Len(s) \/ s[p] # "[" \/ s[p + 1] # "IMAGE: " THEN 0
    ELSE LET rest   == Drop(s, p + 1)
             n      == LeadNotIn(rest, {"\n"})
             closes == {i \in 1..n : rest[i] = "]"}
         IN  IF closes = {} THEN 0
             ELSE p + 1 + (CHOOSE i \in closes : \A j \in closes : j <= i)

\* the image tag is "[" "IMAGE: " description "]"; the token "IMAGE: "
\* stands for that literal of the pattern
\* position of the "]" closing a match of \[IMAGE: (.*?)\] that starts at p,
\* 0 if there is none: the lazy group stops at the first "]", and "." does
\* not match a newline
MatchEnd(s, p) ==
    IF p + 2 > Len(s) \/ s[p] # "[" \/ s[p + 1] # "IMAGE: " THEN 0
    ELSE LET rest == Drop(s, p + 1)
             n    == LeadNotIn(rest, {"]", "\n"})
         IN  IF n < Len(rest) /\ rest[n + 1] = "]" THEN p + 1 + n + 1 ELSE 0

\* the text contains a match of the pattern
HasTag(s) == \E p \in 1..Len(s) : MatchEnd(s, p) # 0

ImageUrl(desc) ==
    <<"https://image.pollinations.ai/prompt/">>
    \o quote(<<"educational vector diagram of ">> \o desc
             \o <<", highly detailed, sharp focus, 4k resolution, svg style, white background, clean lines, minimal text">>)
    \o <<"?nologo=true&width=1024&height=600">>

replace_match(desc) ==
    <<"\n", "\n", "!", "[">> \o desc \o <<"]", "(">> \o ImageUrl(desc) \o <<")", "\n", "\n">>

\* re.sub: leftmost match, then the scan resumes after it.  The result is
\* kept as segments: untouched text, or the description of a replaced tag
RECURSIVE ImageSub(_)
ImageSub(s) ==
    LET starts == {p \in 1..Len(s) : MatchEnd(s, p) # 0}
    IN  IF starts = {}
        THEN IF s = <<>> THEN <<>> ELSE <<[k |-> "text", v |-> s]>>
        ELSE LET p == Min(starts)
                 q == MatchEnd(s, p)
             IN  (IF p > 1 THEN <<[k |-> "text", v |-> SubSeq(s, 1, p - 1)]>> ELSE <<>>)
                 \o <<[k |-> "img", v |-> SubSeq(s, p + 2, q - 1)]>>
                 \o ImageSub(Drop(s, q))

RECURSIVE Flatten(_)
Flatten(segs) ==
    IF segs = <<>> THEN <<>>
    ELSE (IF segs[1].k = "img" THEN replace_match(segs[1].v) ELSE segs[1].v)
         \o Flatten(Tail(segs))

process_text_images(text) == Flatten(ImageSub(text))


-----------------------------------------------------------------------------
(* The knowledge store and get_context, main.py:69-104 *)

\* rows of cultural_knowledge: content and region are always written by the
\* ingestion scripts, image_url is an optional column, metadata.topic marks
\* the general-purpose rows
RowLagos   == [content |-> "danfo drivers cut corners", region |-> "Lagos, Nigeria",
               has_image_url |-> FALSE, image_url |-> None, topic |-> "Other"]
RowOhm     == [content |-> "circuit diagram", region |-> "Visual Diagram",
               has_image_url |-> TRUE, image_url |-> Some(<<"https://.../circuit.png">>),
               topic |-> "Other"]
RowBlank   == [content |-> "market in Yaba", region |-> "Lagos, Nigeria",
               has_image_url |-> TRUE, image_url |-> Some(<<>>), topic |-> "Other"]
RowProverb == [content |-> "it takes a village", region |-> "West Africa",
               has_image_url |-> TRUE, image_url |-> Some(<<"https://.../village.png">>),
               topic |-> "General"]
AllRows == {RowLagos, RowOhm, RowBlank, RowProverb}

GeneralRows(st) == {r \in st : r.topic = "General"}

\* match.get('image_url')
GetImageUrl(row) == IF row.has_image_url THEN row.image_url ELSE None

SpecificNarrative(row) ==
    <<"Use this local metaphor: ", row.content, " (Region: ", row.region, ")">>
GeneralNarrative(row) ==
    <<"Use this general African wisdom: ", row.content, " (Region: ", row.region, ")">>
NoContextNarrative ==
    <<"No specific local metaphor found. Improvising based on general Nigerian culture.">>

NoValue == [narrative |-> <<>>, image_url |-> None]

\* what the external calls of tier 1 can do: embed_query raises (the search
\* is then not issued), the rpc raises, or the rpc returns rows of the store
Tier1Outcomes(st) ==
    {[embed |-> "raise", search |-> "not_called", data |-> <<>>],
     [embed |-> "ok", search |-> "raise", data |-> <<>>]}
    \cup {[embed |-> "ok", search |-> "ok", data |-> d] : d \in SeqsUpTo(st, MaxRows)}

\* what the general-wisdom query (limit 1) can do: raise, or return one
\* general row if the store has one and no row otherwise
Tier2Outcomes(st) ==
    {[fallback |-> "raise", fdata |-> <<>>]}
    \cup (IF GeneralRows(st) = {}
          THEN {[fallback |-> "ok", fdata |-> <<>>]}
          ELSE {[fallback |-> "ok", fdata |-> <<r>>] : r \in GeneralRows(st)})

\* variant of SpecificTier that reads the last row instead of the first
SpecificTier_LastRow(o) ==
    IF o.embed = "raise" \/ o.search = "raise"
    THEN [kind |-> "next", value |-> NoValue]
    ELSE IF o.data # <<>> /\ Len(o.data) > 0
         THEN [kind |-> "return",
               value |-> [narrative |-> SpecificNarrative(o.data[Len(o.data)]),
                          image_url |-> GetImageUrl(o.data[Len(o.data)])]]
         ELSE [kind |-> "next", value |-> NoValue]

\* main.py:75-87: the try block of the specific search.  kind is "return"
\* (the function returns value), "next" (control reaches the code after the
\* try statement) or "raise" (an exception leaves get_context)
SpecificTier(o) ==
    IF o.embed = "raise" \/ o.search = "raise"
    THEN [kind |-> "next", value |-> NoValue]                  \* except Exception: print
    ELSE IF o.data # <<>> /\ Len(o.data) > 0
         THEN [kind |-> "return",
               value |-> [narrative |-> SpecificNarrative(o.data[1]),
                          image_url |-> GetImageUrl(o.data[1])]]
         ELSE [kind |-> "next", value |-> NoValue]

\* variant of GeneralTier without the except clause
GeneralTier_Propagates(o) ==
    IF o.fallback = "raise"
    THEN [kind |-> "raise", value |-> NoValue]
    ELSE IF o.fdata # <<>>
         THEN [kind |-> "return",
               value |-> [narrative |-> GeneralNarrative(o.fdata[1]), image_url |-> None]]
         ELSE [kind |-> "next", value |-> NoValue]

\* variant of GeneralTier that returns the row's image as tier 1 does
GeneralTier_WithImage(o) ==
    IF o.fallback = "raise"
    THEN [kind |-> "next", value |-> NoValue]
    ELSE IF o.fdata # <<>>
         THEN [kind |-> "return",
               value |-> [narrative |-> GeneralNarrative(o.fdata[1]),
                          image_url |-> GetImageUrl(o.fdata[1])]]
         ELSE [kind |-> "next", value |-> NoValue]

\* variant of GeneralTier that ignores the row it found
GeneralTier_Drops(o) == [kind |-> "next", value |-> NoValue]

\* main.py:90-101: the try block of the general-wisdom fallback
GeneralTier(o) ==
    IF o.fallback = "raise"
    THEN [kind |-> "next", value |-> NoValue]                  \* except Exception: print
    ELSE IF o.fdata # <<>>
         THEN [kind |-> "return",
               value |-> [narrative |-> GeneralNarrative(o.fdata[1]), image_url |-> None]]
         ELSE [kind |-> "next", value |-> NoValue]

\* main.py:104
FinalResort == [narrative |-> NoContextNarrative, image_url |-> None]

-----------------------------------------------------------------------------
(* ask_the_brain, main.py:121-207 *)

Subjects == {<<>>, <<"Ohm's Law">>}
Replies  == {<<"a">>,
             <<"#", " ", "*", "*", "a", "*", "*", "\n", "$", "a", "$", " ">>,
             <<"a", "[", "IMAGE: ", "a", "]">>}

NoRequest == [subject |-> <<>>, language |-> "english", mode |-> "standard",
              is_whatsapp |-> FALSE]
NoEnv == [embed |-> "pending", search |-> "pending", data |-> <<>>,
          fallback |-> "not_entered", fdata |-> <<>>]
NoResult == [text |-> <<>>, contextNarrative |-> <<>>, visualUrl |-> None]

NoTools == [isNone |-> TRUE, supabase |-> 0, embeddings |-> 0, llm |-> 0]

\* main.py:131-133
FallbackImageUrl(subject) ==
    <<"https://image.pollinations.ai/prompt/">>
    \o quote(<<"Educational vector diagram explaining ">> \o subject
             \o <<", highly detailed, sharp focus, 8k resolution, svg style, white background, clean lines, high quality, minimal text">>)
    \o <<"?nologo=true&width=1024&height=600">>

\* variant of ImageFallbackValue testing "is None" instead of falsiness
ImageFallbackValue_IsNone(url, subject) ==
    IF url.null THEN Some(FallbackImageUrl(subject)) ELSE url

\* variant of ImageFallbackValue that always synthesizes the diagram URL
ImageFallbackValue_Always(url, subject) == Some(FallbackImageUrl(subject))

\* main.py:131: if not visual_url
ImageFallbackValue(url, subject) ==
    IF ~Truthy(url) THEN Some(FallbackImageUrl(subject)) ELSE url

\* main.py:136-157; "{subject}" and "{context}" are the template variables
SystemInstruction(mode) ==
    IF mode = "griot"
    THEN <<"You are 'Baba Agba', an ancient African Griot ... to explain: ", "{subject}",
           ". Structure: ... Tone: Wise, rhythmic, engaging. Use atmospheric descriptions.">>
    ELSE <<"You are a Nigerian science tutor. Explain: ", "{subject}",
           " clearly. Use this context if relevant: ", "{context}",
           " Tone: Friendly, academic but accessible.">>

\* main.py:160-164
ToneInstruction(language) ==
    IF language = "pidgin"
    THEN <<"Speak in Nigerian Pidgin English. Use slang like 'Abeg', 'No wahala', 'Omo' to make it fun.">>
    ELSE <<"Speak in clear, standard English.">>

\* main.py:167-174
FormattingInstruction(is_whatsapp) ==
    IF is_whatsapp
    THEN <<"Start with a friendly emoji. Use single * for bold. Use dashes for lists. No LaTeX. Keep under 100 words.">>
    ELSE <<"Use **Bold** for key terms. Use LaTeX for math ($E=mc^2$). ... insert an image tag like this: [IMAGE: short description].">>

\* variant of PromptTemplate without the closing 'Student asks' lines
PromptTemplate_NoQuestion(mode, language, is_whatsapp) ==
    SystemInstruction(mode)
    \o <<"TONE INSTRUCTION: ">> \o ToneInstruction(language)
    \o <<"FORMATTING: ">> \o FormattingInstruction(is_whatsapp)

\* main.py:177-187: the f-string pastes the three blocks into the template;
\* {{subject}} and {{context}} become the template variables
PromptTemplate(mode, language, is_whatsapp) ==
    SystemInstruction(mode)
    \o <<"TONE INSTRUCTION: ">> \o ToneInstruction(language)
    \o <<"FORMATTING: ">> \o FormattingInstruction(is_whatsapp)
    \o <<"Student asks: ", "{subject}", "Context: ", "{context}">>

\* main.py:190-194: chain.invoke formats the template with the two values
Render(template, subject, context) ==
    [i \in 1..Len(template) |->
        IF template[i] = "{subject}" THEN [k |-> "subject", v |-> subject]
        ELSE IF template[i] = "{context}" THEN [k |-> "context", v |-> context]
        ELSE [k |-> "lit", v |-> <<template[i]>>]]

\* main.py:197-201
PostProcess(content, is_whatsapp) ==
    IF ~is_whatsapp THEN process_text_images(content) ELSE clean_for_whatsapp(content)

\* variant of ExceptReturn that hands back the visual URL computed so far
ExceptReturn_KeepsVisual(msg) ==
    [text |-> <<"Error: ", msg>>, contextNarrative |-> <<"Error">>, visualUrl |-> visual_url]

\* main.py:205-207
ExceptReturn(msg) ==
    [text |-> <<"Error: ", msg>>, contextNarrative |-> <<"Error">>, visualUrl |-> None]


-----------------------------------------------------------------------------
(* One request at a time: the handlers are async functions that never      *)
(* await, so the event loop runs each to completion (main.py:221-234,      *)
(* 302-314).                                                               *)

BrainIdle ==
    /\ pc = "idle" /\ req = NoRequest /\ env = NoEnv /\ ctx = <<>>
    /\ visual_url = None /\ prompt = <<>> /\ sent = <<>> /\ reply = <<>>
    /\ failed = "none" /\ result = NoResult
ToolsIdle ==
    /\ tpc = [t \in 1..NumThreads |-> "idle"]
    /\ tlocal = [t \in 1..NumThreads |-> NoTools]
    /\ tret = [t \in 1..NumThreads |-> NoTools]
    /\ constructed = 0
WaIdle == waText = <<>> /\ waOnce = <<>> /\ waTwice = <<>> /\ waPc = "idle"
ImgIdle == imgText = <<>> /\ imgSegs = <<>> /\ imgOut = <<>> /\ imgPc = "idle"
IngIdle ==
    /\ chunks = <<>> /\ all_vectors = <<>> /\ bi = 0 /\ ui = 0
    /\ rows = <<>> /\ retries = 0 /\ ingPc = "idle"

Init ==
    /\ ai_tools = NoTools
    /\ store \in SUBSET AllRows
    /\ BrainIdle /\ ToolsIdle /\ WaIdle /\ ImgIdle /\ IngIdle

\* the except clause of ask_the_brain, main.py:205-207
Except(kind, msg) ==
    /\ failed' = kind
    /\ result' = ExceptReturn(msg)
    /\ pc' = "done"

\* a request arrives: teach_topic or whatsapp_reply calls ask_the_brain
Receive ==
    /\ pc \in {"idle", "done"}
    /\ \E s \in Subjects, l \in {"english", "pidgin"}, m \in {"standard", "griot"},
          w \in BOOLEAN :
          req' = [subject |-> s, language |-> l, mode |-> m, is_whatsapp |-> w]
    /\ pc' = "tools"
    /\ env' = NoEnv /\ ctx' = <<>> /\ visual_url' = None /\ prompt' = <<>>
    /\ sent' = <<>> /\ reply' = <<>> /\ failed' = "none" /\ result' = NoResult
    /\ UNCHANGED <<ai_tools, store, toolVars, waVars, imgVars, ingVars>>

\* main.py:123, get_ai_tools run by the only running handler (main.py:27-59)
GetTools ==
    /\ pc = "tools"
    /\ \/ /\ ai_tools' = IF ai_tools.isNone
                         THEN [isNone |-> FALSE, supabase |-> 1, embeddings |-> 1, llm |-> 1]
                         ELSE ai_tools
          /\ pc' = "tier1"
          /\ UNCHANGED <<failed, result>>
       \/ /\ ai_tools.isNone          \* a client constructor raises
          /\ Except("init", "client construction failed")
          /\ UNCHANGED ai_tools
    /\ UNCHANGED <<req, store, env, ctx, visual_url, prompt, sent, reply,
                   toolVars, waVars, imgVars, ingVars>>

\* main.py:75-87
SpecificSearch ==
    /\ pc = "tier1"
    /\ \E o \in Tier1Outcomes(store) :
          LET r == SpecificTier(o) IN
          /\ env' = [env EXCEPT !.embed = o.embed, !.search = o.search, !.data = o.data]
          /\ CASE r.kind = "return" ->
                    ctx' = Append(ctx, r.value) /\ pc' = "image" /\ UNCHANGED <<failed, result>>
               [] r.kind = "next" ->
                    pc' = "tier2" /\ UNCHANGED <<ctx, failed, result>>
               [] OTHER ->
                    Except("context", "vector search error") /\ UNCHANGED ctx
    /\ UNCHANGED <<ai_tools, req, store, visual_url, prompt, sent, reply,
                   toolVars, waVars, imgVars, ingVars>>

\* main.py:90-104
GeneralLookup ==
    /\ pc = "tier2"
    /\ \E o \in Tier2Outcomes(store) :
          LET r == GeneralTier(o) IN
          /\ env' = [env EXCEPT !.fallback = o.fallback, !.fdata = o.fdata]
          /\ CASE r.kind = "return" ->
                    ctx' = Append(ctx, r.value) /\ pc' = "image" /\ UNCHANGED <<failed, result>>
               [] r.kind = "next" ->
                    ctx' = Append(ctx, FinalResort) /\ pc' = "image"
                    /\ UNCHANGED <<failed, result>>
               [] OTHER ->
                    Except("context", "fallback search error") /\ UNCHANGED ctx
    /\ UNCHANGED <<ai_tools, req, store, visual_url, prompt, sent, reply,
                   toolVars, waVars, imgVars, ingVars>>

\* main.py:128-133
ImageFallback ==
    /\ pc = "image"
    /\ visual_url' = ImageFallbackValue(ctx[1].image_url, req.subject)
    /\ pc' = "prompt"
    /\ UNCHANGED <<ai_tools, req, store, env, ctx, prompt, sent, reply, failed, result,
                   toolVars, waVars, imgVars, ingVars>>

\* main.py:136-187
BuildPrompt ==
    /\ pc = "prompt"
    /\ \/ /\ prompt' = PromptTemplate(req.mode, req.language, req.is_whatsapp)
          /\ pc' = "invoke"
          /\ UNCHANGED <<failed, result>>
       \/ /\ Except("prompt", "template error")
          /\ UNCHANGED prompt
    /\ UNCHANGED <<ai_tools, req, store, env, ctx, visual_url, sent, reply,
                   toolVars, waVars, imgVars, ingVars>>

\* main.py:190-194
Invoke ==
    /\ pc = "invoke"
    /\ sent' = Render(prompt, req.subject, ctx[1].narrative)
    /\ \/ /\ \E r \in Replies : reply' = r
          /\ pc' = "post"
          /\ UNCHANGED <<failed, result>>
       \/ /\ Except("generation", "generation call failed")
          /\ UNCHANGED reply
    /\ UNCHANGED <<ai_tools, req, store, env, ctx, visual_url, prompt,
                   toolVars, waVars, imgVars, ingVars>>

\* main.py:197-203
Return ==
    /\ pc = "post"
    /\ result' = [text |-> PostProcess(reply, req.is_whatsapp),
                  contextNarrative |-> ctx[1].narrative,
                  visualUrl |-> visual_url]
    /\ pc' = "done"
    /\ UNCHANGED <<ai_tools, req, store, env, ctx, visual_url, prompt, sent, reply, failed,
                   toolVars, waVars, imgVars, ingVars>>

Next ==
    \/ Receive \/ GetTools \/ SpecificSearch \/ GeneralLookup
    \/ ImageFallback \/ BuildPrompt \/ Invoke \/ Return

Spec == Init /\ [][Next]_vars


-----------------------------------------------------------------------------
(* Properties of get_context and ask_the_brain, checked under Spec *)

\* get_context was called by the current request and control has left it
GetContextLeft == env.embed # "pending" /\ pc # "tier2"

\* tier 1 gave no row: embed_query raised, the rpc raised, or no row came back
Tier1Nothing == env.embed = "raise" \/ env.search = "raise"
                \/ (env.search = "ok" /\ env.data = <<>>)
\* tier 2 gave no row: the query raised or returned no row
Tier2Nothing == env.fallback = "raise" \/ (env.fallback = "ok" /\ env.fdata = <<>>)

Count(seq, P(_)) == Cardinality({i \in 1..Len(seq) : P(seq[i])})

\* C1: get_context never raises to its caller: whatever the embedding call,
\* the similarity search and the general-wisdom lookup do (return rows,
\* return nothing, raise), no exception leaves get_context and, once control
\* has left it, it has returned exactly one (narrative, image_url) pair.
C1_GetContextNeverRaises ==
    /\ failed # "context"
    /\ Len(ctx) <= 1
    /\ GetContextLeft =>
          /\ Len(ctx) = 1
          /\ ctx[1].narrative # <<>>
          /\ ctx[1].image_url.null \in BOOLEAN

\* C1 witness: both the embedding call and the general-wisdom lookup raised,
\* and get_context still returned one pair
C1_Witness ==
    /\ GetContextLeft /\ env.embed = "raise" /\ env.fallback = "raise"
    /\ Len(ctx) = 1

\* C2: ask_the_brain never raises: every path ends with a triple; when client
\* initialisation, prompt building or the generation call fails, the text is
\* the error description "Error: <message>", the context narrative is the
\* sentinel "Error" and visualUrl is null; this holds for the empty subject too.
C2_BrainNeverRaises ==
    pc = "done" =>
       /\ DOMAIN result = {"text", "contextNarrative", "visualUrl"}
       /\ failed # "none" =>
             /\ Len(result.text) = 2 /\ result.text[1] = "Error: "
             /\ result.contextNarrative = <<"Error">>
             /\ result.visualUrl.null
       /\ failed = "none" =>
             /\ result.contextNarrative = ctx[1].narrative
             /\ result.contextNarrative # <<"Error">>

\* C2 witness: the generation call failed for the empty subject and the
\* degraded triple was returned
C2_Witness ==
    /\ pc = "done" /\ failed = "generation" /\ req.subject = <<>>
    /\ result.contextNarrative = <<"Error">>

\* C3 as stated: every call for the Web audience returns a non-null visual
\* URL, whatever Knowledge Lookup and the generation call do.
C3_WebVisualAlwaysPopulated ==
    (pc = "done" /\ ~req.is_whatsapp) => ~result.visualUrl.null

\* C3 amended: for the Web audience, every call in which no step raises into
\* the except clause returns a non-null, non-empty visual URL, whatever
\* Knowledge Lookup returned; when a step raises, visualUrl is null.
C3_WebVisualPopulatedOnSuccess ==
    (pc = "done" /\ ~req.is_whatsapp) =>
       /\ failed = "none" => (~result.visualUrl.null /\ result.visualUrl.v # <<>>)
       /\ failed # "none" => result.visualUrl.null

\* C3 witness: a Web answer completed after Knowledge Lookup returned no
\* image, and the visual URL is the synthesized one
C3_Witness ==
    /\ pc = "done" /\ ~req.is_whatsapp /\ failed = "none"
    /\ ctx[1].image_url.null
    /\ ~result.visualUrl.null

\* C5: whenever the similarity search returned at least one row, get_context
\* returned the Specific tier: the 'Use this local metaphor' sentence with the
\* first row's content and region, and that row's stored image (null if it has
\* none); the general-wisdom lookup was not used.
C5_SpecificTier ==
    (env.search = "ok" /\ Len(env.data) > 0) =>
       /\ ctx = <<[narrative |-> <<"Use this local metaphor: ", env.data[1].content,
                                    " (Region: ", env.data[1].region, ")">>,
                   image_url |-> IF env.data[1].has_image_url
                                 THEN env.data[1].image_url ELSE None]>>
       /\ env.fallback = "not_entered"

\* C5 witness: the search returned two different rows, the first one with a
\* stored image, and get_context has returned
C5_Witness ==
    /\ GetContextLeft /\ env.search = "ok" /\ Len(env.data) = 2
    /\ env.data[1] # env.data[2]
    /\ ~ctx[1].image_url.null

\* the part of C6 both statements share: the general-wisdom lookup is issued
\* only after tier 1 gave nothing
C6_EnteredOnlyAfterTier1 == env.fallback # "not_entered" => Tier1Nothing

\* C6 as stated: the fallback tier is entered only after tier 1 gave nothing,
\* and then, if a general-purpose row exists, get_context returns the
\* 'general wisdom' narrative of such a row with a null image.
C6_GeneralFallbackIfExists ==
    /\ C6_EnteredOnlyAfterTier1
    /\ (env.fallback # "not_entered" /\ GeneralRows(store) # {}) =>
          \E r \in GeneralRows(store) :
             ctx = <<[narrative |-> <<"Use this general African wisdom: ", r.content,
                                      " (Region: ", r.region, ")">>,
                      image_url |-> None]>>

\* C6 amended: the fallback tier is entered only after tier 1 gave nothing,
\* and then, if a general-purpose row exists and the general-wisdom lookup
\* does not raise, get_context returns the 'general wisdom' narrative of the
\* row the lookup returned, with a null image.
C6_GeneralFallbackIfReturned ==
    /\ C6_EnteredOnlyAfterTier1
    /\ (env.fallback = "ok" /\ GeneralRows(store) # {}) =>
          /\ Len(env.fdata) = 1 /\ env.fdata[1] \in GeneralRows(store)
          /\ ctx = <<[narrative |-> <<"Use this general African wisdom: ",
                                      env.fdata[1].content,
                                      " (Region: ", env.fdata[1].region, ")">>,
                      image_url |-> None]>>

\* C6 witness: the similarity search raised, the lookup returned a general
\* row that has a stored image, and get_context returned
C6_Witness ==
    /\ GetContextLeft /\ env.search = "raise" /\ env.fallback = "ok"
    /\ Len(env.fdata) = 1 /\ env.fdata[1].has_image_url
    /\ Len(ctx) = 1

\* C7: get_context returns the fixed 'no context found, improvising'
\* narrative, with a null image, exactly when both tiers gave nothing (each
\* returned no row or raised), and in no other case.
C7_NoneTier ==
    GetContextLeft =>
       /\ (ctx[1].narrative =
             <<"No specific local metaphor found. Improvising based on general Nigerian culture.">>)
          <=> (Tier1Nothing /\ Tier2Nothing)
       /\ (Tier1Nothing /\ Tier2Nothing) => ctx[1].image_url = None

\* C7 witness: the search returned no row and the lookup raised although the
\* store holds a general row
C7_Witness ==
    /\ GetContextLeft /\ env.search = "ok" /\ env.data = <<>>
    /\ env.fallback = "raise" /\ GeneralRows(store) # {}
    /\ ctx[1].image_url = None

IsSubject(seg) == seg.k = "subject"
IsContext(seg) == seg.k = "context"
IsSubjectVar(tok) == tok = "{subject}"
IsContextVar(tok) == tok = "{context}"

\* C8 as stated: for every mode, language and audience the prompt
\* interpolates the subject exactly once and the context narrative exactly
\* once.
C8_InterpolatedOnce ==
    sent # <<>> =>
       /\ Count(prompt, IsSubjectVar) = 1 /\ Count(prompt, IsContextVar) = 1
       /\ Count(sent, IsSubject) = 1 /\ Count(sent, IsContext) = 1

\* C8 amended: for every mode, language and audience the prompt interpolates
\* the subject exactly twice (in the persona block and after 'Student asks:');
\* it interpolates the context narrative exactly twice in standard mode and
\* exactly once in griot mode; every interpolation is verbatim.
C8_InterpolationCounts ==
    sent # <<>> =>
       /\ Count(prompt, IsSubjectVar) = 2 /\ Count(sent, IsSubject) = 2
       /\ Count(prompt, IsContextVar) = (IF req.mode = "griot" THEN 1 ELSE 2)
       /\ Count(sent, IsContext) = (IF req.mode = "griot" THEN 1 ELSE 2)
       /\ \A i \in 1..Len(sent) :
             /\ sent[i].k = "subject" => sent[i].v = req.subject
             /\ sent[i].k = "context" => sent[i].v = ctx[1].narrative

\* C8 witness: a griot, pidgin, WhatsApp prompt was formatted and sent
C8_Witness ==
    /\ sent # <<>> /\ req.mode = "griot" /\ req.language = "pidgin" /\ req.is_whatsapp
    /\ Count(sent, IsContext) = 1


-----------------------------------------------------------------------------
(* get_ai_tools entered by several threads, main.py:27-59.  A thread may be *)
(* preempted between any two statements; the global is read at line 30 and *)
(* written once, with the finished dict, at line 51.                        *)

Threads == 1..NumThreads

InitTools ==
    /\ ai_tools = NoTools
    /\ store = {}
    /\ BrainIdle /\ ToolsIdle /\ WaIdle /\ ImgIdle /\ IngIdle

\* a first request calls get_ai_tools (main.py:123)
Enter(t) ==
    /\ tpc[t] = "idle"
    /\ tpc' = [tpc EXCEPT ![t] = "check"]
    /\ UNCHANGED <<ai_tools, tlocal, tret, constructed, brainVars, waVars, imgVars, ingVars>>

\* main.py:30
CheckNone(t) ==
    /\ tpc[t] = "check"
    /\ tpc' = [tpc EXCEPT ![t] = IF ai_tools.isNone THEN "create_client" ELSE "return"]
    /\ UNCHANGED <<ai_tools, tlocal, tret, constructed, brainVars, waVars, imgVars, ingVars>>

\* main.py:36-40; create_client raises on a missing or bad URL or key
CreateClient(t) ==
    /\ tpc[t] = "create_client"
    /\ \/ /\ tlocal' = [tlocal EXCEPT ![t].supabase = t]
          /\ tpc' = [tpc EXCEPT ![t] = "embeddings"]
       \/ /\ tpc' = [tpc EXCEPT ![t] = "raised"]
          /\ UNCHANGED tlocal
    /\ UNCHANGED <<ai_tools, tret, constructed, brainVars, waVars, imgVars, ingVars>>

\* main.py:43-46
CreateEmbeddings(t) ==
    /\ tpc[t] = "embeddings"
    /\ tlocal' = [tlocal EXCEPT ![t].embeddings = t]
    /\ tpc' = [tpc EXCEPT ![t] = "llm"]
    /\ UNCHANGED <<ai_tools, tret, constructed, brainVars, waVars, imgVars, ingVars>>

\* main.py:49
CreateLlm(t) ==
    /\ tpc[t] = "llm"
    /\ tlocal' = [tlocal EXCEPT ![t].llm = t]
    /\ tpc' = [tpc EXCEPT ![t] = "assign"]
    /\ UNCHANGED <<ai_tools, tret, constructed, brainVars, waVars, imgVars, ingVars>>

\* main.py:51-56: the dict is built from the locals, then stored in the global
AssignTools(t) ==
    /\ tpc[t] = "assign"
    /\ ai_tools' = [tlocal[t] EXCEPT !.isNone = FALSE]
    /\ constructed' = constructed + 1
    /\ tpc' = [tpc EXCEPT ![t] = "return"]
    /\ UNCHANGED <<tlocal, tret, brainVars, waVars, imgVars, ingVars>>

\* main.py:59
ReturnTools(t) ==
    /\ tpc[t] = "return"
    /\ tret' = [tret EXCEPT ![t] = ai_tools]
    /\ tpc' = [tpc EXCEPT ![t] = "done"]
    /\ UNCHANGED <<ai_tools, tlocal, constructed, brainVars, waVars, imgVars, ingVars>>

NextTools ==
    \E t \in Threads :
       \/ Enter(t) \/ CheckNone(t) \/ CreateClient(t) \/ CreateEmbeddings(t)
       \/ CreateLlm(t) \/ AssignTools(t) \/ ReturnTools(t)

SpecTools == InitTools /\ [][NextTools]_vars

\* a bundle all of whose clients were constructed, and by the same call
CompleteBundle(b) ==
    /\ ~b.isNone
    /\ b.supabase # 0 /\ b.embeddings = b.supabase /\ b.llm = b.supabase

\* no caller of get_ai_tools is handed, and the global never holds, a bundle
\* that lacks a client
NoPartialBundle ==
    /\ ai_tools.isNone \/ CompleteBundle(ai_tools)
    /\ \A t \in Threads : tpc[t] = "done" => CompleteBundle(tret[t])

-----------------------------------------------------------------------------
(* clean_for_whatsapp applied once and twice to every short text *)

WaChars == {"*", "#", "$", " ", "\n", "a"}

InitWa ==
    /\ ai_tools = NoTools
    /\ store = {}
    /\ BrainIdle /\ ToolsIdle /\ ImgIdle /\ IngIdle
    /\ waText \in SeqsUpTo(WaChars, MaxWaLen)
    /\ waOnce = <<>> /\ waTwice = <<>> /\ waPc = "start"

CleanOnce ==
    /\ waPc = "start"
    /\ waOnce' = clean_for_whatsapp(waText)
    /\ waPc' = "once"
    /\ UNCHANGED <<ai_tools, waText, waTwice, brainVars, toolVars, imgVars, ingVars>>

CleanTwice ==
    /\ waPc = "once"
    /\ waTwice' = clean_for_whatsapp(waOnce)
    /\ waPc' = "twice"
    /\ UNCHANGED <<ai_tools, waText, waOnce, brainVars, toolVars, imgVars, ingVars>>

NextWa == CleanOnce \/ CleanTwice

SpecWa == InitWa /\ [][NextWa]_vars

\* C9: clean_for_whatsapp is idempotent: cleaning the cleaned text gives the
\* same text, and the once-cleaned text contains no "**" and no "$".
C9_CleanIdempotent ==
    /\ waPc \in {"once", "twice"} =>
          /\ ~HasPair(waOnce, "*", "*")
          /\ \A i \in 1..Len(waOnce) : waOnce[i] # "$"
    /\ waPc = "twice" => waTwice = waOnce

-----------------------------------------------------------------------------
(* process_text_images applied to every short text *)

ImgChars == {"[", "IMAGE: ", "]", "a", "\n"}

InitImg ==
    /\ ai_tools = NoTools
    /\ store = {}
    /\ BrainIdle /\ ToolsIdle /\ WaIdle /\ IngIdle
    /\ imgText \in SeqsUpTo(ImgChars, MaxImgLen)
    /\ imgSegs = <<>> /\ imgOut = <<>> /\ imgPc = "start"

Expand ==
    /\ imgPc = "start"
    /\ imgSegs' = ImageSub(imgText)
    /\ imgOut' = process_text_images(imgText)
    /\ imgPc' = "done"
    /\ UNCHANGED <<ai_tools, imgText, brainVars, toolVars, waVars, ingVars>>

NextImg == Expand

SpecImg == InitImg /\ [][NextImg]_vars

\* putting each replaced tag back in place of its segment
RECURSIVE Unexpand(_)
Unexpand(segs) ==
    IF segs = <<>> THEN <<>>
    ELSE (IF segs[1].k = "img" THEN <<"[", "IMAGE: ">> \o segs[1].v \o <<"]">>
          ELSE segs[1].v)
         \o Unexpand(Tail(segs))

IsImg(seg) == seg.k = "img"
IsUrlBase(tok) == tok = "https://image.pollinations.ai/prompt/"

\* what C10 and its amendment share: every match is replaced by a reference
\* carrying its own description (which ends at the first "]" of its line),
\* the text around the matches is untouched, no match is left in the
\* untouched text, and a text without a tag is returned unchanged
C10_EachTagExpanded ==
    imgPc = "done" =>
       /\ Unexpand(imgSegs) = imgText
       /\ \A i \in 1..Len(imgSegs) :
             /\ imgSegs[i].k = "img" =>
                   \A j \in 1..Len(imgSegs[i].v) : imgSegs[i].v[j] \notin {"]", "\n"}
             /\ imgSegs[i].k = "text" => ~HasTag(imgSegs[i].v)
       /\ Count(imgOut, IsUrlBase) = Count(imgSegs, IsImg)
       /\ ~HasTag(imgText) => imgOut = imgText

\* C10 as stated: every occurrence of the tag is replaced independently by a
\* reference with its own description, other text is untouched, a text with
\* zero tags is returned unchanged, and no tag remains in the output.
C10_NoTagRemains ==
    /\ C10_EachTagExpanded
    /\ imgPc = "done" => ~HasTag(imgOut)

\* C10 amended: every match of the tag pattern (left to right, not
\* overlapping, the description ending at the first "]" of the line) is
\* replaced independently by a reference with its own description, other text
\* is untouched, a text with zero tags is returned unchanged, and no tag
\* remains in the untouched text; a tag-shaped string is left in the output
\* only inside an inserted reference whose description contains "IMAGE: ".
C10_NoTagOutsideReferences ==
    /\ C10_EachTagExpanded
    /\ (imgPc = "done" /\ HasTag(imgOut)) =>
          \E i \in 1..Len(imgSegs) :
             /\ imgSegs[i].k = "img"
             /\ \E j \in 1..Len(imgSegs[i].v) : imgSegs[i].v[j] = "IMAGE: "

\* C10 witness: a text with two tags of different descriptions was expanded
\* into two references
C10_Witness ==
    /\ imgPc = "done" /\ Len(imgSegs) = 2
    /\ imgSegs[1].k = "img" /\ imgSegs[2].k = "img"
    /\ imgSegs[1].v # imgSegs[2].v
    /\ Count(imgOut, IsUrlBase) = 2


-----------------------------------------------------------------------------
(* The visual URL of a successful answer, checked under Spec *)

\* the URL main.py:132-133 builds for the subjects of the model, written out
SynthesizedUrl ==
    <<"https://image.pollinations.ai/prompt/",
      "Educational%20vector%20diagram%20explaining%20">>
    \o (IF req.subject = <<>> THEN <<>> ELSE <<"Ohm%27s%20Law">>)
    \o <<"%2C%20highly%20detailed%2C%20sharp%20focus%2C%208k%20resolution%2C%20svg%20style%2C%20white%20background%2C%20clean%20lines%2C%20high%20quality%2C%20minimal%20text",
         "?nologo=true&width=1024&height=600">>

\* get_context returned an image: a non-null, non-empty URL, which only the
\* Specific tier can produce
ReturnedImage == ~ctx[1].image_url.null /\ ctx[1].image_url.v # <<>>

\* C11: on a successful answer, visualUrl is the image URL stored with the
\* Specific match whenever get_context returned one (nothing is synthesized),
\* and it is the URL synthesized from the subject at the image-generation
\* endpoint exactly when get_context returned no image (GeneralFallback tier,
\* None tier, or a Specific match without image).
C11_VisualUrlSource ==
    (pc = "done" /\ failed = "none") =>
       /\ ReturnedImage =>
             /\ env.search = "ok" /\ Len(env.data) > 0
             /\ env.data[1].has_image_url
             /\ result.visualUrl = env.data[1].image_url
       /\ ~ReturnedImage => result.visualUrl = Some(SynthesizedUrl)
       /\ (result.visualUrl = Some(SynthesizedUrl)) <=> ~ReturnedImage
       /\ (env.fallback # "not_entered" \/ ~env.data[1].has_image_url)
             => result.visualUrl = Some(SynthesizedUrl)

\* C11 witness: a successful answer for a Specific match with a stored image
\* carries that image
C11_Witness ==
    /\ pc = "done" /\ failed = "none" /\ ReturnedImage
    /\ result.visualUrl = Some(<<"https://.../circuit.png">>)

\* a successful answer after the General-fallback tier carries the
\* synthesized URL, with the encoded subject in it
C11_WitnessSynthesized ==
    /\ pc = "done" /\ failed = "none" /\ env.fallback = "ok" /\ env.fdata # <<>>
    /\ req.subject # <<>>
    /\ result.visualUrl = Some(SynthesizedUrl)


-----------------------------------------------------------------------------
(* process_and_upload, scrape_and_feed.py:78-144 *)

batch_size == 5

ChunkTexts == {"c1", "c2"}

\* messages of the exceptions embed_documents may raise
ErrorMessages == {"429 Too Many Requests", "TooManyRequestsError", "Quota exceeded",
                  "connection reset"}

\* scrape_and_feed.py:120: "429" in msg or "TooManyRequests" in msg or
\* "quota" in msg.lower()
IsRateLimit(msg) ==
    msg \in {"429 Too Many Requests", "TooManyRequestsError", "Quota exceeded"}

\* the vector the embeddings provider computes for a text
VecOf(c) == <<"vec", c>>

\* embeddings.embed_documents(batch): one vector per text, in order
embed_documents(batch) == [k \in 1..Len(batch) |-> VecOf(batch[k])]

\* variant of Batch that drops the last chunk of the slice
Batch_Short(cs, i) ==
    SubSeq(cs, i + 1, (IF i + batch_size <= Len(cs) THEN i + batch_size ELSE Len(cs)) - 1)

\* scrape_and_feed.py:104: chunks[i : i + batch_size]
Batch(cs, i) ==
    SubSeq(cs, i + 1, IF i + batch_size <= Len(cs) THEN i + batch_size ELSE Len(cs))

\* variant of AfterRateLimit that moves on to the next batch
AfterRateLimit_Skips(i) == i + batch_size

\* scrape_and_feed.py:121-123: i is not incremented, the batch is retried
AfterRateLimit(i) == i

\* scrape_and_feed.py:132-139: the row built for chunk number k (1-based);
\* idx records the loop index and is not a column of the table
RowFor(k) ==
    [idx |-> k,
     content |-> <<chunks[k], "\n(Source: ", "source_name", ")">>,
     region |-> "Global",
     embedding |-> all_vectors[k]]

InitIngest ==
    /\ ai_tools = NoTools
    /\ store = {}
    /\ BrainIdle /\ ToolsIdle /\ WaIdle /\ ImgIdle
    /\ chunks \in SeqsUpTo(ChunkTexts, MaxChunks)
    /\ all_vectors = <<>> /\ bi = 0 /\ ui = 0
    /\ rows = <<>> /\ retries = 0 /\ ingPc = "embed"

\* scrape_and_feed.py:103-116: a batch is embedded
EmbedBatch ==
    /\ ingPc = "embed" /\ bi < Len(chunks)
    /\ all_vectors' = all_vectors \o embed_documents(Batch(chunks, bi))
    /\ bi' = bi + batch_size
    /\ UNCHANGED <<ai_tools, brainVars, toolVars, waVars, imgVars,
                   chunks, ui, rows, retries, ingPc>>

\* scrape_and_feed.py:118-123: embed_documents raised a rate-limit error
EmbedRateLimited ==
    /\ ingPc = "embed" /\ bi < Len(chunks)
    /\ retries < MaxRetries
    /\ \E msg \in ErrorMessages : IsRateLimit(msg)
    /\ bi' = AfterRateLimit(bi)
    /\ retries' = retries + 1
    /\ UNCHANGED <<ai_tools, brainVars, toolVars, waVars, imgVars,
                   chunks, all_vectors, ui, rows, ingPc>>

\* scrape_and_feed.py:124-126: embed_documents raised another error
EmbedCritical ==
    /\ ingPc = "embed" /\ bi < Len(chunks)
    /\ \E msg \in ErrorMessages : ~IsRateLimit(msg)
    /\ ingPc' = "aborted"
    /\ UNCHANGED <<ai_tools, brainVars, toolVars, waVars, imgVars,
                   chunks, all_vectors, bi, ui, rows, retries>>

\* scrape_and_feed.py:103, 129: the while loop ends, the upload begins
StartUpload ==
    /\ ingPc = "embed" /\ ~(bi < Len(chunks))
    /\ ingPc' = "upload"
    /\ ui' = 0
    /\ UNCHANGED <<ai_tools, brainVars, toolVars, waVars, imgVars,
                   chunks, all_vectors, bi, rows, retries>>

\* scrape_and_feed.py:131-142: one iteration of the upload loop; an exception
\* of the insert, or of all_vectors[i], is logged and the loop goes on
InsertRow ==
    /\ ingPc = "upload" /\ ui < Len(chunks)
    /\ \/ /\ ui + 1 <= Len(all_vectors)
          /\ rows' = Append(rows, RowFor(ui + 1))
       \/ UNCHANGED rows
    /\ ui' = ui + 1
    /\ UNCHANGED <<ai_tools, brainVars, toolVars, waVars, imgVars,
                   chunks, all_vectors, bi, retries, ingPc>>

\* scrape_and_feed.py:144
FinishUpload ==
    /\ ingPc = "upload" /\ ui = Len(chunks)
    /\ ingPc' = "finished"
    /\ UNCHANGED <<ai_tools, brainVars, toolVars, waVars, imgVars,
                   chunks, all_vectors, bi, ui, rows, retries>>

NextIngest ==
    \/ EmbedBatch \/ EmbedRateLimited \/ EmbedCritical
    \/ StartUpload \/ InsertRow \/ FinishUpload

SpecIngest == InitIngest /\ [][NextIngest]_vars

\* C12: in process_and_upload the upload starts only after every batch was
\* embedded: a rate-limit error leaves the batch index and the vector list as
\* they were (the index stays a multiple of the batch size and the list holds
\* exactly the vectors of the chunks before it), any other embedding error
\* aborts with no row inserted, so during the upload the list has one vector
\* per chunk and every row inserted at loop index i pairs chunk i with the
\* vector of chunk i.
C12_UploadAfterAllEmbedded ==
    ingPc # "idle" =>
       /\ bi % 5 = 0
       /\ Len(all_vectors) = (IF bi <= Len(chunks) THEN bi ELSE Len(chunks))
       /\ \A k \in 1..Len(all_vectors) : all_vectors[k] = <<"vec", chunks[k]>>
       /\ ingPc = "aborted" => rows = <<>>
       /\ rows # <<>> => ingPc \in {"upload", "finished"}
       /\ ingPc \in {"upload", "finished"} => Len(all_vectors) = Len(chunks)
       /\ \A r \in 1..Len(rows) :
             /\ rows[r].idx \in 1..Len(chunks)
             /\ rows[r].content[1] = chunks[rows[r].idx]
             /\ rows[r].embedding = <<"vec", chunks[rows[r].idx]>>
             /\ r > 1 => rows[r - 1].idx < rows[r].idx

\* C12 witness: a text of two batches was ingested after a rate-limit retry,
\* every chunk was inserted, and the first and last chunks differ
C12_Witness ==
    /\ ingPc = "finished" /\ retries > 0
    /\ Len(chunks) > 5 /\ Len(rows) = Len(chunks)
    /\ chunks[1] # chunks[Len(chunks)]

\* an ingestion aborted by a non-rate-limit error after the first batch had
\* been embedded
C12_WitnessAborted ==
    /\ ingPc = "aborted" /\ bi = 5 /\ rows = <<>>


=============================================================================
